---- MODULE Spec2Model ----
(***************************************************************************)
(* A state-machine model of elektronn3.training.trainer.Trainer: the       *)
(* train() loop (step / epoch control flow, fault handling, checkpoints),  *)
(* save_model() and validate().  One action per statement group of the     *)
(* source; pc is the position of the single thread that runs train().      *)
(***************************************************************************)
EXTENDS Integers, Sequences, FiniteSets, TLC

\* ------------------------------------------------------------------ bounds
MaxSteps == 2
MaxLen == 2
MaxFaults == 1
MaxCalls == 2
MaxValLoss == 3
MaxEpochs == 4
MaxGainSteps == 3

\* ------------------------------------------------------- program constants
\* float('nan'): the only value for which every comparison is false
NaN == -1
\* batchsize: int = 1, the constructor's default
batchsize == 1
\* max_runtime=3600 * 24 * 7, the default of train()
Week == 604800

\* np.inf, greater than every loss the criterion returns
Inf == MaxValLoss + 1

IsNaN(x) == x = NaN

\* mutant of Less: NaN is ordered like a number below every loss
LessOrdersNaN(a, b) == a < b

\* Python's float comparison  a < b : false as soon as one side is NaN
Less(a, b) == ~IsNaN(a) /\ ~IsNaN(b) /\ a < b

\* float addition: NaN is absorbing
Add(a, b) == IF IsNaN(a) \/ IsNaN(b) THEN NaN ELSE a + b

\* float subtraction: NaN is absorbing
Sub(a, b) == IF IsNaN(a) \/ IsNaN(b) THEN NaN ELSE a - b

\* a / n for n > 0, kept exact as numerator and denominator
Div(a, n) == [num |-> a, den |-> n]

\* the losses the criterion returns for a training batch: a number, or NaN
LossValues == {1, NaN}

\* the value metrics.bin_accuracy returns for a training batch
AccValues == {1}

\* the mean loss and mean accuracy of a validation pass
ValLossValues == {1}
ValAccValues == {1}

\* values of max_steps / max_runtime a caller passes to train()
StepsArgs == 0 .. MaxSteps
RuntimeArgs == {0, Week}

\* self.schedulers: an insertion-ordered mapping; each entry's step() either
\* has a "metrics" parameter (ReduceLROnPlateau) or takes no argument
Schedulers == << "noarg", "metrics" >>
NoArg == -2

Suffixes == {"", "_best", "_final"}
NoFile == -1

\* a key that a stats dict does not have
Absent == -3

\* len(self.valid_loader): a validation dataset may hold no sample at all
ValidLens == {0, 1}

\* the metric names a caller may pass in valid_metrics; the default is {}
MetricNames == {"val_accuracy"}

VARIABLES
    ignore_errors, ipython_on_error, valid_dataset, valid_metrics, len_valid,
    tb, preview_batch, sample_plotting_handler, len_loader,
    max_steps, max_runtime, late,
    pc, result, exc, excAt,
    terminate, step, best_val_loss, mode, history, sched, grads,
    optUpdates, disk,
    n, tr_loss, running_acc, loss, acc, si, stats, valid_stats, plots,
    \* late: datetime.datetime.now() >= self.end_time (lines 313-314, 385)
    \* history variables of the verification, never read by the program:
    \* faults: exceptions injected so far; calls: train() calls so far;
    \* finals: "_final" saves completed in the current call; valLog: per epoch
    \* that reached line 389, its validation loss, whether it reached the
    \* comparison of line 437 and whether that started a "_best" save
    faults, calls, finals, valLog

config == << ignore_errors, ipython_on_error, valid_dataset, valid_metrics,
             len_valid, tb, preview_batch, sample_plotting_handler, len_loader >>
args == << max_steps, max_runtime >>
control == << pc, result, exc, excAt >>
self == << terminate, step, best_val_loss, mode, history, sched, grads,
           optUpdates, disk >>
locals == << n, tr_loss, running_acc, loss, acc, si, stats, valid_stats, plots >>
ghost == << faults, calls, finals, valLog >>
vars == << config, args, late, control, self, locals, ghost >>

\* ------------------------------------------------------------ positions
\* positions inside the try block of train() (lines 316-439)
StepPcs == {"fetch", "forward", "nancheck", "zero_grad", "backward", "opt_step",
            "stats", "sched", "inc", "over", "stop"}
ValidPcs == {"val_eval", "val_loop", "val_plot", "val_train"}
TbPcs == {"tb", "tb_sample", "tb_flush"}
SavePcs == {"save_sd", "save_model", "best_sd", "best_model"}
EpochEndPcs == {"avg", "hist", "best"} \cup TbPcs \cup SavePcs \cup ValidPcs
BodyPcs == {"epoch", "epoch_locals"} \cup StepPcs \cup EpochEndPcs
FinalPcs == {"final_sd", "final_model"}
\* positions at which a call into a collaborator (loader, model, criterion,
\* torch, optimizer, metric, scheduler, timer, logger, tracker, tensorboard,
\* torch.save, and in the except clauses traceback.print_exc, print and
\* IPython.embed) can raise: all but the tests of lines 381/385 and 437, which
\* compare numbers and read the clock
FaultPcs == (BodyPcs \ {"over", "best"}) \cup {"handler"} \cup FinalPcs

NoStats == [tr_loss |-> Div(0, 1), tr_accuracy |-> Div(0, 1),
            val_loss |-> NaN, val_accuracy |-> NaN]
NoValid == [val_loss |-> 0, val_accuracy |-> 0]
NoPlots == [sample |-> 0, preview |-> 0]
NoDisk == [s \in Suffixes |-> [sd |-> NoFile, model |-> NoFile]]

\* len(self.train_dataset) for a loader of len_loader batches
LenDataset == len_loader * batchsize

\* ------------------------------------------------------------ __init__
\* Trainer.__init__, lines 255-256, 259, 303: the fields of a new Trainer
Constructed ==
    /\ max_steps = 1
    /\ max_runtime = Week
    /\ late = FALSE
    /\ pc = "idle"
    /\ result = "none"
    /\ exc = "none"
    /\ excAt = "none"
    /\ terminate = FALSE
    /\ step = 0
    /\ best_val_loss = Inf
    /\ mode = "train"
    /\ history = << >>
    /\ sched = [i \in 1 .. Len(Schedulers) |-> [count |-> 0, last |-> NoArg]]
    /\ grads = "none"
    /\ optUpdates = 0
    /\ disk = NoDisk
    /\ n = 0
    /\ tr_loss = 0
    /\ running_acc = 0
    /\ loss = 0
    /\ acc = 0
    /\ si = 1
    /\ stats = NoStats
    /\ valid_stats = NoValid
    /\ plots = NoPlots
    /\ faults = 0
    /\ calls = 0
    /\ finals = 0
    /\ valLog = << >>

\* Trainer.__init__, lines 200-201, 220-222, 231, 271-285, 298-305: the
\* constructor's arguments; with tensorboard enabled the plotting handlers get
\* defaults; without a validation dataset there is no validation loader and
\* valid_metrics is never read
Configs ==
    /\ ignore_errors \in BOOLEAN
    /\ ipython_on_error \in BOOLEAN
    /\ valid_dataset \in BOOLEAN
    /\ valid_metrics \in SUBSET MetricNames
    /\ len_valid \in ValidLens
    /\ (~valid_dataset => valid_metrics = {} /\ len_valid = 0)
    /\ tb \in BOOLEAN
    /\ preview_batch \in BOOLEAN
    /\ sample_plotting_handler \in {"None", "set"}
    /\ (tb => sample_plotting_handler = "set")
    /\ len_loader \in 1 .. MaxLen

\* every fault policy, without validation and with a non-empty validation
\* dataset (valid_metrics at its default or with "val_accuracy"), the plotting
\* arguments at their defaults (enable_tensorboard=True, preview_batch=None)
Init ==
    /\ Configs
    /\ (valid_dataset => len_valid = 1)
    /\ tb = TRUE
    /\ preview_batch = FALSE
    /\ Constructed

\* ------------------------------------------------------------ exceptions
\* an exception of class kind leaves the current position: inside the try
\* block it reaches the except clauses, outside it reaches the caller
Raise(kind) ==
    /\ exc' = kind
    /\ excAt' = pc
    /\ IF pc \in BodyPcs
       THEN pc' = "handler" /\ result' = result
       ELSE pc' = "idle" /\ result' = "raised"

Goto(p) == pc' = p /\ UNCHANGED << result, exc, excAt >>

\* ---------------------------------------------------------------- train
\* train(max_steps, max_runtime), lines 308-314
Train(ms, mr) ==
    /\ pc = "idle"
    /\ calls < MaxCalls
    /\ calls' = calls + 1
    /\ max_steps' = ms
    /\ max_runtime' = mr
    /\ late' = (mr <= 0)
    /\ pc' = "while"
    /\ result' = "none"
    /\ exc' = "none"
    /\ excAt' = "none"
    /\ finals' = 0
    /\ UNCHANGED << config, self, locals, faults, valLog >>

\* mutant of WhileTest: the loop is also left after a handled fault
WhileTestGivesUp ==
    /\ pc = "while"
    /\ IF ~terminate /\ exc = "none" THEN Goto("epoch") ELSE Goto("final_sd")
    /\ UNCHANGED << config, args, late, self, locals, ghost >>

\* while not self.terminate, line 315 (and the fall-through to line 458)
WhileTest ==
    /\ pc = "while"
    /\ IF ~terminate THEN Goto("epoch") ELSE Goto("final_sd")
    /\ UNCHANGED << config, args, late, self, locals, ghost >>

\* mutant of EpochStart: the epoch does not call self.model.train()
EpochStartKeepsMode ==
    /\ pc = "epoch"
    /\ mode' = mode
    /\ plots' = NoPlots
    /\ pc' = "epoch_locals"
    /\ exc' = "none"
    /\ excAt' = "none"
    /\ UNCHANGED << config, args, late, ghost, result, terminate, step,
                    best_val_loss, history, sched, grads, optUpdates, disk,
                    n, tr_loss, running_acc, loss, acc, si, stats, valid_stats >>

\* lines 316-318: the try block is entered and self.model.train() is called;
\* no plotting handler has been called in this epoch yet
EpochStart ==
    /\ pc = "epoch"
    /\ mode' = "train"
    /\ plots' = NoPlots
    /\ pc' = "epoch_locals"
    /\ exc' = "none"
    /\ excAt' = "none"
    /\ UNCHANGED << config, args, late, ghost, result, terminate, step,
                    best_val_loss, history, sched, grads, optUpdates, disk,
                    n, tr_loss, running_acc, loss, acc, si, stats, valid_stats >>

\* lines 320-330: the epoch's fresh locals and timer = Timer()
EpochLocals ==
    /\ pc = "epoch_locals"
    /\ n' = 0
    /\ tr_loss' = 0
    /\ running_acc' = 0
    /\ loss' = 0
    /\ acc' = 0
    /\ si' = 1
    /\ stats' = NoStats
    /\ valid_stats' = NoValid
    /\ Goto("fetch")
    /\ UNCHANGED << config, args, late, self, ghost, plots >>

\* line 331-332: the for loop takes the next batch, or the pass is over
Fetch ==
    /\ pc = "fetch"
    /\ IF n = len_loader
       THEN Goto("avg") /\ n' = n
       ELSE Goto("forward") /\ n' = n + 1
    /\ UNCHANGED << config, args, late, self, ghost, tr_loss, running_acc, loss,
                    acc, si, stats, valid_stats, plots >>

\* lines 335-336: out = model(inp); loss = criterion(out, target)
Forward(l) ==
    /\ pc = "forward"
    /\ loss' = l
    /\ Goto("nancheck")
    /\ UNCHANGED << config, args, late, self, ghost, n, tr_loss, running_acc,
                    acc, si, stats, valid_stats, plots >>

\* mutant of NanCheck: the NaN test is missing
NanCheckMissing ==
    /\ pc = "nancheck"
    /\ Goto("zero_grad")
    /\ UNCHANGED << config, args, late, self, locals, ghost >>

\* lines 337-339: if torch.isnan(loss): raise NaNException
NanCheck ==
    /\ pc = "nancheck"
    /\ IF IsNaN(loss) THEN Raise("NaNException") ELSE Goto("zero_grad")
    /\ UNCHANGED << config, args, late, self, locals, ghost >>

\* line 342: self.optimizer.zero_grad()
ZeroGrad ==
    /\ pc = "zero_grad"
    /\ grads' = "zero"
    /\ Goto("backward")
    /\ UNCHANGED << config, args, late, locals, ghost, terminate, step,
                    best_val_loss, mode, history, sched, optUpdates, disk >>

\* line 343: loss.backward()
Backward ==
    /\ pc = "backward"
    /\ grads' = "ready"
    /\ Goto("opt_step")
    /\ UNCHANGED << config, args, late, locals, ghost, terminate, step,
                    best_val_loss, mode, history, sched, optUpdates, disk >>

\* line 344: self.optimizer.step()
OptStep ==
    /\ pc = "opt_step"
    /\ optUpdates' = optUpdates + 1
    /\ Goto("stats")
    /\ UNCHANGED << config, args, late, locals, ghost, terminate, step,
                    best_val_loss, mode, history, sched, grads, disk >>

\* lines 347-364: detach, stats['tr_loss'] += float(loss), acc = bin_accuracy
StepStats(a) ==
    /\ pc = "stats"
    /\ tr_loss' = Add(tr_loss, loss)
    /\ acc' = a
    /\ si' = 1
    /\ Goto("sched")
    /\ UNCHANGED << config, args, late, self, ghost, n, running_acc, loss,
                    stats, valid_stats, plots >>

\* the argument one scheduler's step() receives, lines 369-372
SchedArg(kind, l) == IF kind = "metrics" THEN l ELSE NoArg

\* lines 366-372: one iteration of the loop over self.schedulers.values()
SchedStep ==
    /\ pc = "sched"
    /\ IF si > Len(Schedulers)
       THEN Goto("inc") /\ UNCHANGED << sched, si >>
       ELSE /\ sched' = [sched EXCEPT ![si] =
                           [count |-> @.count + 1,
                            last |-> SchedArg(Schedulers[si], loss)]]
            /\ si' = si + 1
            /\ Goto("sched")
    /\ UNCHANGED << config, args, late, ghost, n, tr_loss, running_acc, loss,
                    acc, stats, valid_stats, plots, terminate, step,
                    best_val_loss, mode, history, grads, optUpdates, disk >>

\* mutant of NextStep: the increment counts the step twice
NextStepTwice(s) == s + 2

\* the value of self.step after line 380
NextStep(s) == s + 1

\* mutant of RunIsOver: the max_steps test is off by one
RunIsOverLate(s) == s > max_steps \/ late

\* lines 381-388: does the step that ended at count s end the run
RunIsOver(s) == s >= max_steps \/ late

\* lines 374-380: running sums and self.step += 1
IncStep ==
    /\ pc = "inc"
    /\ running_acc' = running_acc + acc
    /\ step' = NextStep(step)
    /\ Goto("over")
    /\ UNCHANGED << config, args, late, ghost, n, tr_loss, loss, acc, si, stats,
                    valid_stats, plots, terminate, best_val_loss, mode, history,
                    sched, grads, optUpdates, disk >>

\* lines 381 and 385: the max_steps test, then the deadline test
StopTest ==
    /\ pc = "over"
    /\ IF RunIsOver(step) THEN Goto("stop") ELSE Goto("fetch")
    /\ UNCHANGED << config, args, late, self, locals, ghost >>

\* lines 382-384 and 386-388: logger.info(...), self.terminate = True, break
SetTerminate ==
    /\ pc = "stop"
    /\ terminate' = TRUE
    /\ Goto("avg")
    /\ UNCHANGED << config, args, late, locals, ghost, step, best_val_loss, mode,
                    history, sched, grads, optUpdates, disk >>

\* ---------------------------------------------------------- end of epoch
\* lines 389-395: the epoch's averages; without a validation dataset the
\* validation entries are NaN, with one the dict has none until line 398.
\* valLog gets the epoch's entry.
Avg ==
    /\ pc = "avg"
    /\ stats' = [tr_accuracy |-> Div(running_acc, len_loader),
                 tr_loss |-> Div(tr_loss, len_loader),
                 val_loss |-> IF valid_dataset THEN Absent ELSE NaN,
                 val_accuracy |-> IF valid_dataset THEN Absent ELSE NaN]
    /\ IF valid_dataset THEN Goto("val_eval") ELSE Goto("hist")
    /\ valLog' = Append(valLog, [val |-> NaN, compared |-> FALSE, wrote |-> FALSE])
    /\ UNCHANGED << config, args, late, self, faults, calls, finals, n, tr_loss,
                    running_acc, loss, acc, si, valid_stats, plots >>

\* validate(), line 522: the value a stats dict with one entry per name of
\* valid_metrics has under "val_accuracy"
MetricEntry(v) == IF "val_accuracy" \in valid_metrics THEN v ELSE Absent

\* validate(), lines 519-522: self.model.eval(), val_loss = 0 and a zero for
\* every metric of valid_metrics
ValEval ==
    /\ pc = "val_eval"
    /\ mode' = "eval"
    /\ valid_stats' = [val_loss |-> 0, val_accuracy |-> MetricEntry(0)]
    /\ Goto("val_loop")
    /\ UNCHANGED << config, args, late, ghost, n, tr_loss, running_acc, loss,
                    acc, si, stats, plots, terminate, step, best_val_loss,
                    history, sched, grads, optUpdates, disk >>

\* validate(), lines 523-529: the pass over self.valid_loader, whose batch
\* losses and metrics average to vl and va; a loader without batches leaves
\* the zeros, and only the metrics of valid_metrics get an entry
ValLoop(vl, va) ==
    /\ pc = "val_loop"
    /\ valid_stats' = IF len_valid = 0
                      THEN valid_stats
                      ELSE [val_loss |-> vl, val_accuracy |-> MetricEntry(va)]
    /\ Goto("val_plot")
    /\ valLog' = [valLog EXCEPT ![Len(valLog)].val = valid_stats'.val_loss]
    /\ UNCHANGED << config, args, late, self, faults, calls, finals, n, tr_loss,
                    running_acc, loss, acc, si, stats, plots >>

\* validate(), lines 531-535: self.sample_plotting_handler(...); after a
\* loop without batches inp, out and target are unbound (UnboundLocalError),
\* and calling the attribute while it is None is a TypeError
ValPlot ==
    /\ pc = "val_plot"
    /\ IF len_valid = 0 \/ sample_plotting_handler = "None"
       THEN Raise("Exception") /\ plots' = plots
       ELSE Goto("val_train") /\ plots' = [plots EXCEPT !.sample = @ + 1]
    /\ UNCHANGED << config, args, late, self, ghost, n, tr_loss, running_acc,
                    loss, acc, si, stats, valid_stats >>

\* mutant of ValTrain: validate() returns without self.model.train()
ValTrainStaysEval ==
    /\ pc = "val_train"
    /\ mode' = mode
    /\ stats' = [stats EXCEPT !.val_loss = valid_stats.val_loss,
                              !.val_accuracy = valid_stats.val_accuracy]
    /\ Goto("hist")
    /\ UNCHANGED << config, args, late, ghost, n, tr_loss, running_acc, loss,
                    acc, si, valid_stats, plots, terminate, step,
                    best_val_loss, history, sched, grads, optUpdates, disk >>

\* validate(), lines 537-542, and stats.update(valid_stats), line 398
ValTrain ==
    /\ pc = "val_train"
    /\ mode' = "train"
    /\ stats' = [stats EXCEPT !.val_loss = valid_stats.val_loss,
                              !.val_accuracy = valid_stats.val_accuracy]
    /\ Goto("hist")
    /\ UNCHANGED << config, args, late, ghost, n, tr_loss, running_acc, loss,
                    acc, si, valid_stats, plots, terminate, step,
                    best_val_loss, history, sched, grads, optUpdates, disk >>

\* line 403: has more than one... the test  self.step // len(train_dataset) > 1
GainDue(s) == (s \div LenDataset) > 1

\* line 404: self._tracker.history[-1][2] - stats['tr_loss']; both are sums
\* divided by the same len(self.train_loader)
TrLossGain(h, st) ==
    Div(Sub(h[Len(h)].tr_loss.num, st.tr_loss.num), st.tr_loss.den)

\* lines 407-410: the row handed to update_history
Snapshot(s, st, gain) ==
    [step |-> s, tr_loss |-> st.tr_loss, val_loss |-> st.val_loss,
     tr_loss_gain |-> gain, tr_accuracy |-> st.tr_accuracy,
     val_accuracy |-> st.val_accuracy]

\* mutant of UpdateHistory: the tracker keeps only the row it got last
UpdateHistoryKeepsLast(h, row) == << row >>

\* self._tracker.update_history(row): the tracker keeps its rows in the order
\* they were handed over and changes none of them afterwards
UpdateHistory(h, row) == Append(h, row)

\* lines 403-410: loss gain and the append to the tracker's history; indexing
\* an empty history with [-1] is an IndexError, and stats['val_accuracy'] is
\* a KeyError when validate() returned no entry of that name
Hist ==
    /\ pc = "hist"
    /\ IF (GainDue(step) /\ history = << >>) \/ stats.val_accuracy = Absent
       THEN Raise("Exception") /\ history' = history
       ELSE /\ history' = UpdateHistory(history,
                   Snapshot(step, stats,
                            IF GainDue(step) THEN TrLossGain(history, stats)
                                             ELSE Div(0, 1)))
            /\ Goto("tb")
    /\ UNCHANGED << config, args, late, locals, ghost, terminate, step,
                    best_val_loss, mode, sched, grads, optUpdates, disk >>

\* mutant of TbLog: the preview handler is called whether or not a preview
\* batch was given
TbLogPreviewAlways ==
    /\ pc = "tb"
    /\ plots' = IF tb THEN [plots EXCEPT !.preview = @ + 1] ELSE plots
    /\ IF tb THEN Goto("tb_sample") ELSE Goto("save_sd")
    /\ UNCHANGED << config, args, late, self, ghost, n, tr_loss, running_acc,
                    loss, acc, si, stats, valid_stats >>

\* lines 411-430: log line, tracker plot, and the tensorboard block up to
\* the preview handler, which is called only with a preview batch
TbLog ==
    /\ pc = "tb"
    /\ plots' = IF tb /\ preview_batch THEN [plots EXCEPT !.preview = @ + 1]
                                        ELSE plots
    /\ IF tb THEN Goto("tb_sample") ELSE Goto("save_sd")
    /\ UNCHANGED << config, args, late, self, ghost, n, tr_loss, running_acc,
                    loss, acc, si, stats, valid_stats >>

\* line 431: self.sample_plotting_handler(self, images, group='tr_samples')
TbSample ==
    /\ pc = "tb_sample"
    /\ plots' = [plots EXCEPT !.sample = @ + 1]
    /\ Goto("tb_flush")
    /\ UNCHANGED << config, args, late, self, ghost, n, tr_loss, running_acc,
                    loss, acc, si, stats, valid_stats >>

\* line 432: self.tb.writer.flush()
TbFlush ==
    /\ pc = "tb_flush"
    /\ Goto("save_sd")
    /\ UNCHANGED << config, args, late, self, locals, ghost >>

\* ------------------------------------------------------------ save_model
\* the checkpoint suffix and the position after the save, per position
SuffixAt(p) == IF p \in {"save_sd", "save_model"} THEN ""
               ELSE IF p \in {"best_sd", "best_model"} THEN "_best"
               ELSE "_final"

\* save_model(), line 504: torch.save(model.state_dict(), state_dict_path)
SaveStateDict ==
    /\ pc \in {"save_sd", "best_sd", "final_sd"}
    /\ disk' = [disk EXCEPT ![SuffixAt(pc)].sd = optUpdates]
    /\ Goto(CASE pc = "save_sd" -> "save_model"
              [] pc = "best_sd" -> "best_model"
              [] OTHER -> "final_model")
    /\ UNCHANGED << config, args, late, locals, ghost, terminate, step,
                    best_val_loss, mode, history, sched, grads, optUpdates >>

\* save_model(), lines 505-516: torch.save(model, model_path), and the
\* return to train(): line 437 after line 435, the loop test after line 439,
\* the end of train() after line 458
SaveModel ==
    /\ pc \in {"save_model", "best_model", "final_model"}
    /\ disk' = [disk EXCEPT ![SuffixAt(pc)].model = optUpdates]
    /\ CASE pc = "save_model" -> Goto("best") /\ finals' = finals
         [] pc = "best_model" -> Goto("while") /\ finals' = finals
         [] OTHER -> /\ pc' = "idle"
                     /\ result' = "returned"
                     /\ finals' = finals + 1
                     /\ UNCHANGED << exc, excAt >>
    /\ UNCHANGED << config, args, late, locals, faults, calls, valLog, terminate,
                    step, best_val_loss, mode, history, sched, grads, optUpdates >>

\* mutant of IsBest: a validation loss equal to the running best counts
IsBestOrEqual(vl, best) == ~IsNaN(vl) /\ ~IsNaN(best) /\ vl <= best

\* line 437: stats['val_loss'] < self.best_val_loss
IsBest(vl, best) == Less(vl, best)

\* lines 437-438: the comparison and the new running best
Best ==
    /\ pc = "best"
    /\ IF IsBest(stats.val_loss, best_val_loss)
       THEN best_val_loss' = stats.val_loss /\ Goto("best_sd")
       ELSE best_val_loss' = best_val_loss /\ Goto("while")
    /\ valLog' = [valLog EXCEPT ![Len(valLog)].compared = TRUE,
                                ![Len(valLog)].wrote = (pc' = "best_sd")]
    /\ UNCHANGED << config, args, late, locals, faults, calls, finals, terminate,
                    step, mode, history, sched, grads, optUpdates, disk >>

\* ---------------------------------------------------------------- faults
\* a collaborator raises an Exception at the current position
Fault ==
    /\ pc \in FaultPcs
    /\ faults < MaxFaults
    /\ faults' = faults + 1
    /\ Raise("Exception")
    /\ UNCHANGED << config, args, late, self, locals, calls, finals, valLog >>

\* Ctrl-C while train() is at lines 313-315, in the epoch body or in the
\* "_final" save: KeyboardInterrupt at the current position
Interrupt ==
    /\ pc \in {"while"} \cup BodyPcs \cup FinalPcs
    /\ faults < MaxFaults
    /\ faults' = faults + 1
    /\ Raise("KeyboardInterrupt")
    /\ UNCHANGED << config, args, late, self, locals, calls, finals, valLog >>

\* Ctrl-C while an except clause runs (lines 440-457): the KeyboardInterrupt
\* leaves train(); if the clause had opened the shell before (lines 441, 453),
\* the user may have set self.terminate there (setTerm)
InterruptExcept(setTerm) ==
    /\ pc = "handler"
    /\ faults < MaxFaults
    /\ faults' = faults + 1
    /\ setTerm => (exc = "KeyboardInterrupt" \/ (~ignore_errors /\ ipython_on_error))
    /\ terminate' = (terminate \/ setTerm)
    /\ Raise("KeyboardInterrupt")
    /\ UNCHANGED << config, args, late, locals, calls, finals, valLog, step,
                    best_val_loss, mode, history, sched, grads, optUpdates, disk >>

\* the file torch.save writes at a position of save_model()
Written(p) ==
    IF p \in {"save_sd", "best_sd", "final_sd"}
    THEN [disk EXCEPT ![SuffixAt(p)].sd = optUpdates]
    ELSE [disk EXCEPT ![SuffixAt(p)].model = optUpdates]

\* Ctrl-C arrives as torch.save (lines 504, 507) returns: the file is
\* written and the statement after the call is not reached
InterruptSave ==
    /\ pc \in SavePcs \cup FinalPcs
    /\ faults < MaxFaults
    /\ faults' = faults + 1
    /\ disk' = Written(pc)
    /\ Raise("KeyboardInterrupt")
    /\ UNCHANGED << config, args, late, locals, calls, finals, valLog, terminate,
                    step, best_val_loss, mode, history, sched, grads, optUpdates >>

\* IPython.embed (lines 441, 453) raises an Exception on its way out of a
\* session in which the user has set self.terminate: the exception leaves
\* train() with the flag set
SessionFault ==
    /\ pc = "handler"
    /\ faults < MaxFaults
    /\ faults' = faults + 1
    /\ exc = "KeyboardInterrupt" \/ (~ignore_errors /\ ipython_on_error)
    /\ ~terminate
    /\ terminate' = TRUE
    /\ Raise("Exception")
    /\ UNCHANGED << config, args, late, locals, calls, finals, valLog, step,
                    best_val_loss, mode, history, sched, grads, optUpdates, disk >>

\* mutant of HandleInterrupt: the flag is not tested after the shell, the loop
\* test follows in every case
HandleInterruptStays(setTerm) ==
    /\ pc = "handler"
    /\ exc = "KeyboardInterrupt"
    /\ terminate' = (terminate \/ setTerm)
    /\ pc' = "while"
    /\ result' = result
    /\ UNCHANGED << exc, excAt >>
    /\ UNCHANGED << config, args, late, locals, ghost, step, best_val_loss, mode,
                    history, sched, grads, optUpdates, disk >>

\* mutant of HandleInterrupt: the except clause clears the flag before the
\* shell opens, so that only the session decides
HandleInterruptResets(setTerm) ==
    /\ pc = "handler"
    /\ exc = "KeyboardInterrupt"
    /\ terminate' = setTerm
    /\ IF terminate'
       THEN pc' = "idle" /\ result' = "returned"
       ELSE pc' = "while" /\ result' = result
    /\ UNCHANGED << exc, excAt >>
    /\ UNCHANGED << config, args, late, locals, ghost, step, best_val_loss, mode,
                    history, sched, grads, optUpdates, disk >>

\* mutant of HandleInterrupt: without ignore_errors and ipython_on_error a
\* Ctrl-C is re-raised like any other exception
HandleInterruptStrict(setTerm) ==
    /\ pc = "handler"
    /\ exc = "KeyboardInterrupt"
    /\ IF ~ignore_errors /\ ~ipython_on_error
       THEN /\ setTerm = FALSE
            /\ terminate' = terminate
            /\ pc' = "idle"
            /\ result' = "raised"
       ELSE /\ terminate' = (terminate \/ setTerm)
            /\ IF terminate'
               THEN pc' = "idle" /\ result' = "returned"
               ELSE pc' = "while" /\ result' = result
    /\ UNCHANGED << exc, excAt >>
    /\ UNCHANGED << config, args, late, locals, ghost, step, best_val_loss, mode,
                    history, sched, grads, optUpdates, disk >>

\* lines 440-443: except KeyboardInterrupt; inside the IPython shell the user
\* sets self.terminate = True (setTerm) or leaves it
HandleInterrupt(setTerm) ==
    /\ pc = "handler"
    /\ exc = "KeyboardInterrupt"
    /\ terminate' = (terminate \/ setTerm)
    /\ IF terminate'
       THEN pc' = "idle" /\ result' = "returned"
       ELSE pc' = "while" /\ result' = result
    /\ UNCHANGED << exc, excAt >>
    /\ UNCHANGED << config, args, late, locals, ghost, step, best_val_loss, mode,
                    history, sched, grads, optUpdates, disk >>

\* mutant of Policy: ipython_on_error is tested before ignore_errors
PolicyShellFirst(ign, ipy) == IF ipy THEN "interactive"
                              ELSE IF ign THEN "ignore"
                              ELSE "strict"

\* mutant of Policy: without ignore_errors every fault opens the shell
PolicyNeverStrict(ign, ipy) == IF ign THEN "ignore" ELSE "interactive"

\* mutant of Policy: ignore_errors is honoured only together with the shell
PolicyIgnoreLost(ign, ipy) == IF ign /\ ipy THEN "ignore"
                              ELSE IF ipy THEN "interactive"
                              ELSE "strict"

\* lines 446-457: which branch of the except Exception clause is taken
Policy(ign, ipy) == IF ign THEN "ignore"
                    ELSE IF ipy THEN "interactive"
                    ELSE "strict"

\* lines 444-457: except Exception
HandleException(setTerm) ==
    /\ pc = "handler"
    /\ exc # "KeyboardInterrupt"
    /\ CASE Policy(ignore_errors, ipython_on_error) = "ignore" ->
              /\ setTerm = FALSE
              /\ terminate' = terminate
              /\ pc' = "while"
              /\ result' = result
         [] Policy(ignore_errors, ipython_on_error) = "interactive" ->
              /\ terminate' = (terminate \/ setTerm)
              /\ IF terminate'
                 THEN pc' = "idle" /\ result' = "returned"
                 ELSE pc' = "while" /\ result' = result
         [] OTHER ->
              /\ setTerm = FALSE
              /\ terminate' = terminate
              /\ pc' = "idle"
              /\ result' = "raised"
    /\ UNCHANGED << exc, excAt >>
    /\ UNCHANGED << config, args, late, locals, ghost, step, best_val_loss, mode,
                    history, sched, grads, optUpdates, disk >>

\* the clock reaches self.end_time while train() runs; train() reads the
\* clock only at line 385, so that is where its movement is observed
Tick ==
    /\ pc = "over"
    /\ ~late
    /\ late' = TRUE
    /\ UNCHANGED << config, args, control, self, locals, ghost >>

Next ==
    \/ \E ms \in StepsArgs, mr \in RuntimeArgs : Train(ms, mr)
    \/ WhileTest
    \/ EpochStart
    \/ EpochLocals
    \/ Fetch
    \/ \E l \in LossValues : Forward(l)
    \/ NanCheck
    \/ ZeroGrad
    \/ Backward
    \/ OptStep
    \/ \E a \in AccValues : StepStats(a)
    \/ SchedStep
    \/ IncStep
    \/ StopTest
    \/ SetTerminate
    \/ Avg
    \/ ValEval
    \/ \E vl \in ValLossValues, va \in ValAccValues : ValLoop(vl, va)
    \/ ValPlot
    \/ ValTrain
    \/ Hist
    \/ TbLog
    \/ TbSample
    \/ TbFlush
    \/ SaveStateDict
    \/ SaveModel
    \/ Best
    \/ Fault
    \/ Interrupt
    \/ \E setTerm \in BOOLEAN : InterruptExcept(setTerm)
    \/ InterruptSave
    \/ SessionFault
    \/ \E setTerm \in BOOLEAN : HandleInterrupt(setTerm)
    \/ \E setTerm \in BOOLEAN : HandleException(setTerm)
    \/ Tick

Spec == Init /\ [][Next]_vars

\* a new Trainer under every fault policy and every validation setup, an
\* empty validation dataset included
InitQuiet ==
    /\ Configs
    /\ tb = TRUE
    /\ preview_batch = FALSE
    /\ Constructed

\* train() with collaborators that never raise, a criterion that never returns
\* NaN and no Ctrl-C, so that only train() and validate() themselves raise; the
\* thread that runs train() keeps running
NextQuiet ==
    \/ \E ms \in StepsArgs, mr \in RuntimeArgs : Train(ms, mr)
    \/ WhileTest
    \/ EpochStart
    \/ EpochLocals
    \/ Fetch
    \/ \E l \in LossValues \ {NaN} : Forward(l)
    \/ NanCheck
    \/ ZeroGrad
    \/ Backward
    \/ OptStep
    \/ \E a \in AccValues : StepStats(a)
    \/ SchedStep
    \/ IncStep
    \/ StopTest
    \/ SetTerminate
    \/ Avg
    \/ ValEval
    \/ \E vl \in ValLossValues, va \in ValAccValues : ValLoop(vl, va)
    \/ ValPlot
    \/ ValTrain
    \/ Hist
    \/ TbLog
    \/ TbSample
    \/ TbFlush
    \/ SaveStateDict
    \/ SaveModel
    \/ Best
    \/ \E setTerm \in BOOLEAN : HandleException(setTerm)
    \/ Tick

SpecQuiet == InitQuiet /\ [][NextQuiet]_vars /\ WF_vars(NextQuiet)

\* one-batch epochs with a validation dataset whose loss takes MaxValLoss + 1
\* levels or NaN, trained for MaxEpochs steps under ignore_errors
InitBest ==
    /\ Init
    /\ ignore_errors = TRUE
    /\ ipython_on_error = FALSE
    /\ valid_dataset = TRUE
    /\ valid_metrics = {"val_accuracy"}
    /\ len_valid = 1
    /\ len_loader = 1

\* a collaborator raises in the end-of-epoch work, after the step loop; this
\* happens in one epoch of the Trainer's life
EpochEndFault == pc \in EpochEndPcs /\ faults = 0 /\ Fault

NextBest ==
    \/ Train(MaxEpochs, Week)
    \/ WhileTest
    \/ EpochStart
    \/ EpochLocals
    \/ Fetch
    \/ Forward(1)
    \/ NanCheck
    \/ ZeroGrad
    \/ Backward
    \/ OptStep
    \/ StepStats(1)
    \/ SchedStep
    \/ IncStep
    \/ StopTest
    \/ SetTerminate
    \/ Avg
    \/ ValEval
    \/ \E vl \in (0 .. MaxValLoss) \cup {NaN} : ValLoop(vl, 1)
    \/ ValPlot
    \/ ValTrain
    \/ Hist
    \/ TbLog
    \/ TbSample
    \/ TbFlush
    \/ SaveStateDict
    \/ SaveModel
    \/ Best
    \/ EpochEndFault
    \/ \E setTerm \in BOOLEAN : HandleException(setTerm)

SpecBest == InitBest /\ [][NextBest]_vars

\* the clock reaches self.end_time at any moment of a run, whether or not
\* train() is about to read it
Deadline ==
    /\ pc # "idle"
    /\ ~late
    /\ late' = TRUE
    /\ UNCHANGED << config, args, control, self, locals, ghost >>

\* train() with a criterion that may return NaN for any batch, again and
\* again, under every fault policy; no other fault and no Ctrl-C; the thread
\* that runs train() keeps running, so every step that is started finishes
NextRecur ==
    \/ \E ms \in StepsArgs, mr \in RuntimeArgs : Train(ms, mr)
    \/ WhileTest
    \/ EpochStart
    \/ EpochLocals
    \/ Fetch
    \/ \E l \in LossValues : Forward(l)
    \/ NanCheck
    \/ ZeroGrad
    \/ Backward
    \/ OptStep
    \/ \E a \in AccValues : StepStats(a)
    \/ SchedStep
    \/ IncStep
    \/ StopTest
    \/ SetTerminate
    \/ Avg
    \/ ValEval
    \/ \E vl \in ValLossValues, va \in ValAccValues : ValLoop(vl, va)
    \/ ValPlot
    \/ ValTrain
    \/ Hist
    \/ TbLog
    \/ TbSample
    \/ TbFlush
    \/ SaveStateDict
    \/ SaveModel
    \/ Best
    \/ \E setTerm \in BOOLEAN : HandleException(setTerm)
    \/ Deadline

SpecRecur == Init /\ [][NextRecur]_vars /\ WF_vars(NextRecur)

\* the losses of a criterion whose value differs from batch to batch
GainLosses == {1, 2}

\* a Trainer with the default fault policy and no validation dataset
InitGain ==
    /\ Init
    /\ ~ignore_errors
    /\ ~ipython_on_error
    /\ ~valid_dataset

\* train() called for up to MaxGainSteps steps, with batch losses that differ,
\* no fault, no Ctrl-C and the deadline far away
NextGain ==
    \/ \E ms \in 1 .. MaxGainSteps : Train(ms, Week)
    \/ WhileTest
    \/ EpochStart
    \/ EpochLocals
    \/ Fetch
    \/ \E l \in GainLosses : Forward(l)
    \/ NanCheck
    \/ ZeroGrad
    \/ Backward
    \/ OptStep
    \/ \E a \in AccValues : StepStats(a)
    \/ SchedStep
    \/ IncStep
    \/ StopTest
    \/ SetTerminate
    \/ Avg
    \/ Hist
    \/ TbLog
    \/ TbSample
    \/ TbFlush
    \/ SaveStateDict
    \/ SaveModel
    \/ Best

SpecGain == InitGain /\ [][NextGain]_vars

\* every combination of the constructor's plotting arguments, with the
\* default fault policy
InitPlot ==
    /\ Configs
    /\ ~ignore_errors
    /\ ~ipython_on_error
    /\ Constructed

\* train() with collaborators that never raise, no Ctrl-C and the deadline
\* far away; the only exception is the TypeError of calling a handler that
\* is None
NextPlot ==
    \/ \E ms \in 1 .. MaxSteps : Train(ms, Week)
    \/ WhileTest
    \/ EpochStart
    \/ EpochLocals
    \/ Fetch
    \/ \E l \in LossValues \ {NaN} : Forward(l)
    \/ NanCheck
    \/ ZeroGrad
    \/ Backward
    \/ OptStep
    \/ \E a \in AccValues : StepStats(a)
    \/ SchedStep
    \/ IncStep
    \/ StopTest
    \/ SetTerminate
    \/ Avg
    \/ ValEval
    \/ \E vl \in ValLossValues, va \in ValAccValues : ValLoop(vl, va)
    \/ ValPlot
    \/ ValTrain
    \/ Hist
    \/ TbLog
    \/ TbSample
    \/ TbFlush
    \/ SaveStateDict
    \/ SaveModel
    \/ Best
    \/ HandleException(FALSE)

SpecPlot == InitPlot /\ [][NextPlot]_vars

\* ================================================================ claims
Running == pc # "idle"
Left == pc = "idle" /\ result # "none"
Handling == pc = "handler" /\ exc # "KeyboardInterrupt"
Strict == ~ignore_errors /\ ~ipython_on_error

\* this step is a Ctrl-C or an Exception raised outside the try block (a
\* Ctrl-C at the loop test; a Ctrl-C or a failing traceback.print_exc, print or
\* IPython.embed while an except clause runs; a Ctrl-C or a failing torch.save
\* in the "_final" save): it leaves train() raised
RaisedOutsideTry ==
    /\ pc \notin BodyPcs
    /\ faults' # faults
    /\ exc' \in {"KeyboardInterrupt", "Exception"}
    /\ excAt' = pc
    /\ pc' = "idle"
    /\ result' = "raised"

\* C1: the step count never decreases; every change of it is an increment by
\* exactly one, made by the last statement group of a step (line 380), after
\* that step's optimizer update and after every scheduler was advanced.
C1_StepCountsCompletedSteps ==
    [][step' # step =>
          /\ step' = step + 1
          /\ pc = "inc"
          /\ pc' = "over"
          /\ optUpdates > step
          /\ si > Len(Schedulers)]_vars

\* C1 witness: a run resumed from the IPython shell after an interrupt, with
\* the steps counted before the interrupt still counted.
C1_Witness ==
    /\ pc = "while"
    /\ exc = "KeyboardInterrupt"
    /\ excAt \in StepPcs
    /\ ~terminate
    /\ step >= 1

\* C2 (as claimed): at every loop-iteration boundary and at the exit of
\* train() the number of optimizer updates equals the step count.
C2_UpdatesEqualSteps ==
    (pc = "while" \/ Left) => optUpdates = step

\* the first train() call of a new Trainer, asked for at least one step
C3_FreshRun == calls = 1 /\ max_steps >= 1

\* the end-of-epoch work of the last epoch is done and the "_final" checkpoint
\* holds the model as the last step left it
C3_Finished ==
    /\ Left
    /\ result = "returned"
    /\ terminate
    /\ optUpdates = step
    /\ history # << >>
    /\ history[Len(history)].step = step
    /\ disk[""] = [sd |-> step, model |-> step]
    /\ finals = 1
    /\ disk["_final"] = [sd |-> step, model |-> step]

\* C3 (as claimed): a fault-free first call with max_steps >= 1 comes back
\* after exactly max_steps step increments.
C3_ExactlyMaxSteps ==
    (C3_FreshRun /\ Left) => (C3_Finished /\ step = max_steps)

\* the configurations in which the end-of-epoch work itself raises: a
\* validation dataset whose loader has no batch (line 533) or whose metrics
\* have no "val_accuracy" (line 409)
C3_EpochRaises ==
    valid_dataset /\ (len_valid = 0 \/ "val_accuracy" \notin valid_metrics)

\* C3 (amended): a first call with max_steps >= 1 in which nothing raises
\* performs exactly max_steps step increments, or fewer when the deadline
\* start + max_runtime is reached at the end of an earlier step; it then has
\* the flag set, the end-of-epoch work done and the "_final" checkpoint
\* written, and returns.  With a validation dataset that is empty or has no
\* metric named val_accuracy the end-of-epoch work raises in every epoch and
\* no epoch is ever finished.
C3_FreshRunEnds ==
    /\ []((C3_FreshRun /\ Running /\ ~C3_EpochRaises) =>
             <>(C3_FreshRun /\ C3_Finished))
    /\ [](C3_EpochRaises => (history = << >> /\ disk[""].sd = NoFile))
    /\ []((C3_FreshRun /\ Left /\ ~C3_EpochRaises) =>
             /\ C3_Finished
             /\ step >= 1
             /\ step <= max_steps
             /\ (step < max_steps => late))

\* C3 witness: two steps asked for and taken before the deadline, in two
\* epochs.
C3_Witness ==
    /\ C3_FreshRun
    /\ C3_Finished
    /\ max_steps = 2
    /\ step = 2
    /\ Len(history) = 2
    /\ ~late
    /\ valid_dataset
    /\ valid_metrics = {"val_accuracy"}

\* C4 (as claimed): whenever train() has gone back to its caller, by return or
\* by raise, exactly one "_final" checkpoint was written by that call.
C4_FinalOnEveryExit ==
    Left => (finals = 1 /\ disk["_final"].sd # NoFile /\ disk["_final"].model # NoFile)

\* the epoch of valLog entry i has a validation loss that is a number below
\* the validation loss of every earlier epoch in the set js that has one
C5_Below(i, js) ==
    /\ ~IsNaN(valLog[i].val)
    /\ \A j \in js : j < i /\ ~IsNaN(valLog[j].val) =>
                          valLog[i].val < valLog[j].val

\* C5 (as claimed): an epoch that reaches the comparison of line 437 starts a
\* "_best" save iff its validation loss is strictly below the validation loss
\* computed in every earlier epoch, epochs aborted before the comparison
\* included.
C5_BestIffBelowAllComputed ==
    \A i \in 1 .. Len(valLog) :
        valLog[i].compared =>
            (valLog[i].wrote <=> C5_Below(i, 1 .. Len(valLog)))

\* C5 (amended): an epoch that reaches the comparison of line 437 starts a
\* "_best" save iff its validation loss is a number strictly below the
\* validation loss of every earlier epoch that reached the comparison; the
\* loss of an epoch aborted before the comparison is not counted.  Equal
\* values start no save, and losses 0.9, 0.5, 0.6, 0.3 (levels 3, 1, 2, 0)
\* start one in epochs 1, 2 and 4 only.
C5_BestIffBelowAllCompared ==
    /\ \A i \in 1 .. Len(valLog) :
          valLog[i].compared =>
              (valLog[i].wrote <=>
                  C5_Below(i, {j \in 1 .. Len(valLog) : valLog[j].compared}))
    /\ (/\ Len(valLog) = 4
        /\ \A i \in 1 .. 4 : valLog[i].compared
        /\ [i \in 1 .. 4 |-> valLog[i].val] = << 3, 1, 2, 0 >>)
          => [i \in 1 .. 4 |-> valLog[i].wrote] = << TRUE, TRUE, FALSE, TRUE >>
    /\ (pc \in {"best_sd", "best_model"}) =>
          (valLog # << >> /\ valLog[Len(valLog)].wrote
             /\ best_val_loss = valLog[Len(valLog)].val)

\* C5 witness: the four epochs of the example, all compared, the fourth
\* "_best" save under way.
C5_Witness ==
    /\ Len(valLog) = 4
    /\ \A i \in 1 .. 4 : valLog[i].compared
    /\ [i \in 1 .. 4 |-> valLog[i].val] = << 3, 1, 2, 0 >>
    /\ [i \in 1 .. 4 |-> valLog[i].wrote] = << TRUE, TRUE, FALSE, TRUE >>
    /\ pc = "best_model"
    /\ disk["_best"].sd = 4

\* C6: a NaN loss leaves the step at the NaN test: the next position is the
\* except clause, reached with NaNException (unless a Ctrl-C arrives first or
\* the test itself fails with another exception), with gradients, optimizer,
\* schedulers and step count untouched; and no optimizer update, scheduler
\* advance or step increment ever happens while the current loss is NaN.
C6_NaNRaisedBeforeUpdate ==
    [][/\ (pc = "nancheck" /\ IsNaN(loss)) =>
              /\ pc' = "handler"
              /\ (faults' = faults => exc' = "NaNException")
              /\ excAt' = "nancheck"
              /\ UNCHANGED << grads, optUpdates, sched, step >>
       /\ (grads' # grads \/ optUpdates' # optUpdates \/ sched' # sched
              \/ step' # step) => ~IsNaN(loss)]_vars

\* C6 witness: the NaN fault raised at the NaN test after an earlier step
\* completed, nothing of the NaN step applied.
C6_Witness ==
    /\ pc = "handler"
    /\ exc = "NaNException"
    /\ excAt = "nancheck"
    /\ IsNaN(loss)
    /\ step = 1
    /\ optUpdates = 1

\* C7 (as claimed): once a NaN loss was detected the fault reaches the caller:
\* train() is in the except clause or has raised, under every policy.
C7_NaNIsFatal ==
    exc = "NaNException" => (pc = "handler" \/ (pc = "idle" /\ result = "raised"))

\* C8: the except clause treats a NaNException by the configured policy like
\* any other Exception: ignore_errors sends it to the next loop test with the
\* flag untouched; otherwise ipython_on_error opens the shell, after which
\* train() returns if the flag is set and goes to the next loop test if not;
\* otherwise it is re-raised.  Only when the except clause itself is cut
\* short, by a Ctrl-C or by an exception of its own calls, does train() go
\* back to its caller raised instead, under every policy alike.
C8_NaNTakesPolicyBranch ==
    [][(pc = "handler" /\ exc = "NaNException") =>
          IF faults' # faults
          THEN RaisedOutsideTry
          ELSE IF ignore_errors
          THEN pc' = "while" /\ terminate' = terminate /\ result' = result
          ELSE IF ipython_on_error
          THEN \/ pc' = "while" /\ ~terminate' /\ result' = result
               \/ pc' = "idle" /\ terminate' /\ result' = "returned"
          ELSE pc' = "idle" /\ result' = "raised" /\ terminate' = terminate]_vars

\* C8 witness: a NaNException swallowed by the ignore branch although the
\* shell was configured too, training about to go on.
C8_Witness ==
    /\ pc = "while"
    /\ exc = "NaNException"
    /\ ignore_errors
    /\ ipython_on_error
    /\ ~terminate

\* C9 (as claimed): under ignore_errors a non-interrupt fault is swallowed with
\* the step count unchanged, and the loop test that follows starts a new epoch.
C9_IgnoreStartsNewEpoch ==
    [][(ignore_errors /\ exc \in {"Exception", "NaNException"}) =>
          /\ (pc = "handler" => pc' = "while" /\ step' = step /\ result' = result)
          /\ (pc = "while" => pc' = "epoch" /\ step' = step)]_vars

\* C9 (amended): under ignore_errors a non-interrupt fault is swallowed with
\* the step count and the flag unchanged and train() does not raise; the loop
\* test that follows starts a new epoch if the flag is not set, and leaves the
\* loop for the "_final" save if the faulted epoch had already set it.
\* Under ignore_errors train() raises only through a Ctrl-C or an Exception
\* that is raised outside the try block: at the loop test, while the except
\* clause runs, or in the "_final" save.
C9_IgnoreResumesAtLoopTest ==
    [][/\ (ignore_errors /\ exc \in {"Exception", "NaNException"}) =>
              /\ (pc = "handler" =>
                     IF faults' # faults
                     THEN RaisedOutsideTry /\ UNCHANGED << step, optUpdates >>
                     ELSE /\ pc' = "while"
                          /\ result' = result
                          /\ UNCHANGED << step, terminate, optUpdates >>)
              /\ (pc = "while" =>
                     IF faults' # faults
                     THEN RaisedOutsideTry /\ step' = step
                     ELSE /\ pc' = (IF terminate THEN "final_sd" ELSE "epoch")
                          /\ step' = step)
       /\ (ignore_errors /\ pc # "idle" /\ result' = "raised") =>
              RaisedOutsideTry]_vars

\* C9 witness: a fault in the middle of the second step swallowed, the new
\* epoch about to start with the one completed step still counted.
C9_Witness ==
    /\ pc = "epoch"
    /\ ignore_errors
    /\ exc = "Exception"
    /\ excAt = "sched"
    /\ step = 1
    /\ ~terminate

\* C10: with neither ignore_errors nor ipython_on_error a non-interrupt fault
\* of the epoch body is re-raised: the except clause hands control back to the
\* caller with step count, optimizer and flag as the fault left them; what
\* the caller gets is that fault, unless a Ctrl-C or an exception of
\* traceback.print_exc cut the except clause short, in which case it gets
\* that one.
C10_StrictReRaises ==
    [][(Strict /\ Handling) =>
          /\ pc' = "idle"
          /\ result' = "raised"
          /\ (IF faults' = faults THEN exc' = exc ELSE RaisedOutsideTry)
          /\ UNCHANGED << step, terminate, optUpdates, sched, disk >>]_vars

\* C10 witness: a fault in the end-of-epoch work after a completed step,
\* re-raised to the caller with the flag still unset.
C10_Witness ==
    /\ Left
    /\ result = "raised"
    /\ Strict
    /\ exc = "Exception"
    /\ excAt \in EpochEndPcs
    /\ step >= 1
    /\ ~terminate

\* an IPython session is open: Ctrl-C under any policy (line 441), or a fault
\* with ipython_on_error and without ignore_errors (line 453)
C11_InShell ==
    /\ pc = "handler"
    /\ (exc = "KeyboardInterrupt" \/ (~ignore_errors /\ ipython_on_error))

\* the loop test is reached from a session that was left with the flag unset
C11_FromShell ==
    /\ pc = "while"
    /\ (exc = "KeyboardInterrupt" \/
          (exc # "none" /\ ~ignore_errors /\ ipython_on_error))

\* C11 (as claimed): when the session ends train() returns if the flag was set
\* during the session (it was unset before and is set after), and goes on
\* with the loop in every other case.
C11_ReturnsIffSetInSession ==
    [][C11_InShell =>
          IF ~terminate /\ terminate'
          THEN pc' = "idle" /\ result' = "returned"
          ELSE pc' = "while" /\ result' = result]_vars

\* C11 (amended): when the session ends train() returns at once, writing no
\* checkpoint, if the flag is set at that moment, whether the session set it
\* or the interrupted epoch had set it before; otherwise the next loop
\* iteration starts a new epoch.  The session changes nothing else.  The only
\* third outcome is that the except clause is cut short, by a Ctrl-C or by an
\* Exception of print or IPython.embed, or that a Ctrl-C arrives at the loop
\* test: train() then goes back to its caller raised.
C11_ReturnsIffFlagSet ==
    [][/\ C11_InShell =>
              /\ IF faults' # faults THEN RaisedOutsideTry
                 ELSE IF terminate'
                 THEN pc' = "idle" /\ result' = "returned"
                 ELSE pc' = "while" /\ result' = result
              /\ (terminate => terminate')
              /\ UNCHANGED << step, optUpdates, sched, history, disk, finals >>
       /\ C11_FromShell => (~terminate /\ (pc' = "epoch" \/ RaisedOutsideTry))]_vars

\* C11 witness: a fault under the interactive policy, the flag set in the
\* session before any stop condition was reached, train() returned without a
\* "_final" checkpoint.
C11_Witness ==
    /\ Left
    /\ result = "returned"
    /\ exc = "Exception"
    /\ ~ignore_errors
    /\ ipython_on_error
    /\ terminate
    /\ calls = 1
    /\ step < max_steps
    /\ ~late
    /\ finals = 0

\* C12: train() returns normally only with the flag set: after the "_final"
\* save, which is reached only through a loop test that found the flag set, or
\* from an IPython session that was left with the flag set.
C12_ReturnsOnlyTerminated ==
    /\ (pc = "idle" /\ result = "returned") => terminate
    /\ (pc \in FinalPcs) => terminate

\* C12 witness: a run ended by the deadline before max_steps, returned after
\* its "_final" save with the flag set.
C12_Witness ==
    /\ Left
    /\ result = "returned"
    /\ terminate
    /\ finals = 1
    /\ calls = 1
    /\ late
    /\ step < max_steps
    /\ exc = "none"

\* C13 (as claimed): under ignore_errors, once the deadline has passed while
\* train() runs, train() eventually leaves the loop and goes back to its
\* caller, also when a fault recurs in every epoch before a step completes.
C13_DeadlineEndsRun ==
    (ignore_errors /\ Running /\ late) ~> ~Running

\* C14 (as claimed): in a call with max_runtime = 0 no second epoch is
\* started: no epoch starts after an epoch of the same call was aborted.
C14_NoSecondEpoch ==
    (max_runtime = 0 /\ pc = "epoch") => exc = "none"

\* C15 (as claimed): between steps (at the loop test, at the start of an
\* epoch, before the next batch is taken, and after train() went back to its
\* caller) every scheduler has been advanced exactly as many times as steps
\* were completed.
C15_SchedulesCountSteps ==
    (pc \in {"idle", "while", "epoch", "epoch_locals", "fetch"}) =>
        \A i \in 1 .. Len(Schedulers) : sched[i].count = step

\* C16 (as claimed): a Ctrl-C never pre-empts a step in progress: whenever
\* the except clause has been entered with KeyboardInterrupt, and afterwards,
\* no step is partly executed, that is every optimizer update has its
\* scheduler advances and its step increment.
C16_InterruptLeavesStepsWhole ==
    (exc = "KeyboardInterrupt" /\ pc \in {"handler", "while", "idle"}) =>
        /\ excAt \notin (StepPcs \ {"fetch"})
        /\ optUpdates = step
        /\ \A i \in 1 .. Len(Schedulers) : sched[i].count = step

\* the positions of the two torch.save calls of save_model(), for each of the
\* three call sites (lines 435, 439, 458)
C17_SavePcs == {"save_sd", "save_model", "best_sd", "best_model",
                "final_sd", "final_model"}

\* C17 (as claimed): a failure of a checkpoint write reaches the caller of
\* train() under every policy: once torch.save has raised, train() is in the
\* except clause on its way out, or has raised.
C17_SaveFailureIsFatal ==
    (exc = "Exception" /\ excAt \in C17_SavePcs) =>
        (pc = "handler" \/ (pc = "idle" /\ result = "raised"))

\* positions of train() outside the loop body: the call, the loop test and the
\* "_final" save
C18_OutsidePcs == {"idle", "while"} \cup FinalPcs

\* C18: no step of the program takes the flag from true to false; and while
\* the flag is true, a train() call that is at its start, at the loop test or
\* in the "_final" save stays in those positions: it enters no epoch body and
\* changes neither step count, optimizer, schedulers nor history.
C18_FlagNeverReset ==
    [][/\ terminate => terminate'
       /\ (terminate /\ pc \in C18_OutsidePcs) =>
              /\ pc' \in C18_OutsidePcs
              /\ UNCHANGED << step, optUpdates, sched, history, grads,
                              best_val_loss >>]_vars

\* C18 witness: a second train() call asked for two steps, before the
\* deadline, on a Trainer whose first call ended after one step: it wrote
\* "_final" and returned without taking a step.
C18_Witness ==
    /\ Left
    /\ result = "returned"
    /\ calls = 2
    /\ terminate
    /\ max_steps = 2
    /\ max_runtime = Week
    /\ ~late
    /\ step = 1
    /\ finals = 1

\* the reported quotient q equals the sum a divided by m (m > 0)
C19_IsMeanOver(q, a, m) == m > 0 /\ q.num * m = a * q.den

\* C19 (as claimed): in the end-of-epoch work the reported training loss and
\* accuracy are the epoch's sums divided by the number n of batches the epoch
\* consumed, also when the epoch was cut short.
C19_AveragesOverConsumed ==
    (pc \in EpochEndPcs \ {"avg"}) =>
        /\ C19_IsMeanOver(stats.tr_loss, tr_loss, n)
        /\ C19_IsMeanOver(stats.tr_accuracy, running_acc, n)

\* equality of two quotients
C20_Same(p, q) == p.num * q.den = q.num * p.den

\* the training loss of row i - 1 of the history minus that of row i
C20_Drop(i) ==
    [num |-> history[i - 1].tr_loss.num * history[i].tr_loss.den
               - history[i].tr_loss.num * history[i - 1].tr_loss.den,
     den |-> history[i - 1].tr_loss.den * history[i].tr_loss.den]

\* C20 (as claimed): the loss gain of an epoch's history row is zero while the
\* step count is below one pass over the dataset, and from one full pass on
\* it is the previous row's training loss minus this row's.
C20_GainFromFirstPass ==
    \A i \in 1 .. Len(history) :
        IF history[i].step < LenDataset
        THEN history[i].tr_loss_gain.num = 0
        ELSE i > 1 => C20_Same(history[i].tr_loss_gain, C20_Drop(i))

\* C21: the history changes only when an epoch's bookkeeping (lines 403-410)
\* completes, and then by exactly one row appended behind the unchanged
\* earlier rows, with the current step count, which is above the step of the
\* row before it; a step into the except clause appends nothing, and every
\* bookkeeping that completes appends.
C21_HistoryAppendOnly ==
    [][/\ history' # history =>
              /\ pc = "hist"
              /\ pc' = "tb"
              /\ Len(history') = Len(history) + 1
              /\ SubSeq(history', 1, Len(history)) = history
              /\ history'[Len(history')].step = step
              /\ (history # << >> => history[Len(history)].step < step)
       /\ (pc' = "handler" => history' = history)
       /\ (pc = "hist" /\ pc' = "tb" => history' # history)]_vars

\* C21 witness: three epochs under ignore_errors, one of them aborted by a
\* fault behind its optimizer update; the other two appended one row each, the
\* second just now.
C21_Witness ==
    /\ pc = "tb"
    /\ faults = 1
    /\ ignore_errors
    /\ optUpdates = 3
    /\ Len(history) = 2
    /\ history[1].step = 1
    /\ history[2].step = 2

\* the epoch has passed its plotting (lines 423-432) and is writing its
\* checkpoints
C22_EpochPlotted == pc \in {"save_sd", "save_model", "best", "best_sd", "best_model"}

\* C22 (as claimed): in an epoch that completes, the sample handler and the
\* preview handler were each called exactly once if tensorboard is enabled,
\* and neither was called if it is not.
C22_OnceEachIffSink ==
    C22_EpochPlotted =>
        plots = (IF tb THEN [sample |-> 1, preview |-> 1]
                       ELSE [sample |-> 0, preview |-> 0])

\* C22 (amended): in an epoch that completes, the sample handler was called
\* once by the validation pass if there is a validation dataset, with or
\* without tensorboard, and once more after the epoch if tensorboard is
\* enabled; the preview handler was called once if tensorboard is enabled and
\* a preview batch was given, and not otherwise.  With a validation dataset
\* and no sample handler (possible only without tensorboard) no epoch
\* completes, nor does one with a validation dataset that is empty or has no
\* metric named val_accuracy.
C22_PlotsPerEpoch ==
    /\ C22_EpochPlotted =>
          /\ plots.sample = (IF valid_dataset THEN 1 ELSE 0)
                               + (IF tb THEN 1 ELSE 0)
          /\ plots.preview = (IF tb /\ preview_batch THEN 1 ELSE 0)
    /\ (valid_dataset /\ sample_plotting_handler = "None") =>
          (~C22_EpochPlotted /\ pc \notin TbPcs /\ history = << >>)
    /\ C3_EpochRaises =>
          (~C22_EpochPlotted /\ pc \notin TbPcs /\ history = << >>)

\* C22 witness: an epoch completed without tensorboard and with a validation
\* dataset: the sample handler was called once, by validate().
C22_Witness ==
    /\ C22_EpochPlotted
    /\ ~tb
    /\ valid_dataset
    /\ sample_plotting_handler = "set"
    /\ plots = [sample |-> 1, preview |-> 0]

\* C23: validate() has the model in eval mode when its loop does the forward
\* computations, changes neither optimizer, gradients, schedulers, step count
\* nor checkpoints at any of its positions, and has the model back in train
\* mode when it returns to train().
C23_ValidateFrame ==
    [][/\ (pc \in ValidPcs) =>
              UNCHANGED << optUpdates, grads, sched, step, disk, terminate >>
       /\ (pc = "val_loop") => mode = "eval"
       /\ (pc = "val_train" /\ pc' = "hist") => mode' = "train"]_vars

\* C23 witness: validate() has just returned to train() after the first
\* step, with its loss in the epoch's stats and the model in train mode.
C23_Witness ==
    /\ pc = "hist"
    /\ valid_dataset
    /\ mode = "train"
    /\ stats.val_loss = 1
    /\ plots.sample = 1
    /\ step = 1
    /\ optUpdates = 1

\* C24 (as claimed): whenever train() has gone back to its caller, by return
\* or by raise, the two files of every suffix hold the same model state (or
\* neither exists).
C24_CheckpointsWhole ==
    Left => \A suf \in Suffixes : disk[suf].sd = disk[suf].model

\* C25: without a validation dataset validate() is never entered, every row
\* of the history has NaN for validation loss and accuracy, best_val_loss
\* stays at infinity, no "_best" file is ever written or started, and every
\* epoch that gets past its save has both un-suffixed files from that epoch.
C25_NoValidationNoBest ==
    ~valid_dataset =>
        /\ pc \notin ValidPcs
        /\ \A i \in 1 .. Len(history) :
              IsNaN(history[i].val_loss) /\ IsNaN(history[i].val_accuracy)
        /\ best_val_loss = Inf
        /\ pc \notin {"best_sd", "best_model"}
        /\ disk["_best"] = [sd |-> NoFile, model |-> NoFile]
        /\ (pc = "best" => disk[""] = [sd |-> optUpdates, model |-> optUpdates])

\* C25 witness: two epochs completed without a validation dataset, the second
\* un-suffixed checkpoint on disk, no "_best".
C25_Witness ==
    /\ ~valid_dataset
    /\ pc = "while"
    /\ Len(history) = 2
    /\ IsNaN(history[2].val_loss)
    /\ disk[""] = [sd |-> 2, model |-> 2]
    /\ disk["_best"].sd = NoFile
    /\ best_val_loss = Inf

\* C26 (as claimed): at every loop test best_val_loss is finite iff both
\* "_best" files exist, and then both hold the same model state.
C26_BestAgreesWithDisk ==
    (pc = "while") =>
        /\ (best_val_loss # Inf) <=>
              (disk["_best"].sd # NoFile /\ disk["_best"].model # NoFile)
        /\ disk["_best"].sd = disk["_best"].model

\* C27 (as claimed): the update of a step (zero_grad, backward,
\* optimizer.step) is only ever under way while the step count is below
\* max_steps, and the step count is never above max_steps in a call that
\* has trained.
C27_NoUpdateAtMaxSteps ==
    /\ (pc \in {"zero_grad", "backward", "opt_step"}) => step < max_steps
    /\ (pc \in StepPcs \cup EpochEndPcs) => step <= max_steps

\* C28: at every position of a training step, the optimizer update included,
\* the model is in train mode; and the step that starts an epoch's step loop
\* leaves the model in train mode whatever mode the epoch before left it in.
C28_UpdatesInTrainMode ==
    /\ []((pc \in StepPcs \cup {"epoch_locals"}) => mode = "train")
    /\ [][(pc = "epoch" /\ pc' = "epoch_locals") => mode' = "train"]_vars

\* C28 witness: a validation pass was aborted with the model in eval mode,
\* the exception was handled without leaving train(), and the next epoch is
\* about to start.
C28_Witness ==
    /\ pc = "epoch"
    /\ mode = "eval"
    /\ excAt \in ValidPcs
    /\ step = 1
    /\ ~terminate

\* the outcome of an IPython session: train() returns with the flag set, or
\* goes on to the loop test with the flag unset
C29_SessionOutcome ==
    \/ pc' = "idle" /\ result' = "returned" /\ terminate'
    \/ pc' = "while" /\ result' = result /\ ~terminate'

\* C29 (as claimed): a Ctrl-C is never re-raised to the caller of train().
C29_InterruptNeverRaised ==
    (exc = "KeyboardInterrupt") => ~(pc = "idle" /\ result = "raised")

\* C29 (amended): the except clauses act by a fixed precedence.  A Ctrl-C
\* that arrives while the epoch body runs reaches the except clause and ends
\* in a session outcome under every setting of ignore_errors and
\* ipython_on_error; a Ctrl-C that arrives outside the try block (at the loop
\* test, while an except clause runs, or during the "_final" save) goes to
\* the caller, and so does an Exception raised by an except clause's own
\* calls, under every policy.  Any other exception of the epoch body is swallowed without a session when
\* ignore_errors is set, ipython_on_error or not (the flag stays as it is and
\* the loop test follows), ends in a session outcome when only
\* ipython_on_error is set, and is re-raised when neither is.
C29_PolicyPrecedence ==
    [][/\ pc = "handler" =>
              IF faults' # faults THEN RaisedOutsideTry
              ELSE IF exc = "KeyboardInterrupt" THEN C29_SessionOutcome
              ELSE IF ignore_errors
                   THEN pc' = "while" /\ result' = result
                          /\ terminate' = terminate
              ELSE IF ipython_on_error THEN C29_SessionOutcome
              ELSE pc' = "idle" /\ result' = "raised"
       /\ (faults' # faults /\ exc' = "KeyboardInterrupt") =>
              IF pc \in BodyPcs
              THEN pc' = "handler" /\ result' = result
              ELSE /\ pc \in {"while", "handler"} \cup FinalPcs
                   /\ RaisedOutsideTry
                   /\ (pc = "handler" /\ ignore_errors
                          /\ exc # "KeyboardInterrupt" => terminate' = terminate)]_vars

\* C29 witness: with both ignore_errors and ipython_on_error set, a Ctrl-C in
\* the epoch body opened the session, the user set the flag there and train()
\* returned before any stop condition was reached.
C29_Witness ==
    /\ Left
    /\ result = "returned"
    /\ exc = "KeyboardInterrupt"
    /\ ignore_errors
    /\ ipython_on_error
    /\ terminate
    /\ calls = 1
    /\ step < max_steps
    /\ ~late
    /\ finals = 0

====
